---- MODULE Spec2Model ----
(***************************************************************************)
(* Behavioural risk engine of sf_ai_model/model/secureFlow.py              *)
(* (class BehavioralAuthModel): feature extraction, per-user baseline      *)
(* profiles, risk scoring, threshold classification and model training.    *)
(*                                                                         *)
(* Number representation.  Python floats are modelled in fixed point:      *)
(*   - feature values, sums, min, max : integers counting tenths           *)
(*       (Deci(0, 3) is 0.3, Deci(1, 0) is 1);                             *)
(*   - mean, percentiles              : exact fractions [num, den] of      *)
(*       tenths, in lowest terms;                                          *)
(*   - std                            : held exactly through its square,   *)
(*       [radicand |-> variance as a fraction of tenths^2];                *)
(*   - z-scores, total_deviation      : integers counting hundredths,      *)
(*       z rounded down (the z > 2 test itself is decided exactly);        *)
(*   - risk scores, thresholds        : integers counting thousandths, so  *)
(*       total_deviation / 10 in thousandths is the same integer as        *)
(*       total_deviation in hundredths.                                    *)
(***************************************************************************)
EXTENDS Integers, Sequences, FiniteSets, TLC

\* ------------------------------------------------------------------ numbers

Deci(whole, tenths) == 10 * whole + tenths

Abs(x) == IF x < 0 THEN -x ELSE x

Min2(a, b) == IF a < b THEN a ELSE b

Max2(a, b) == IF a > b THEN a ELSE b

RECURSIVE Gcd(_, _)
Gcd(a, b) == IF b = 0 THEN a ELSE Gcd(b, a % b)

\* The fraction num/den (den > 0) in lowest terms.
Frac(num, den) ==
    LET g == Gcd(Abs(num), den)
    IN  IF g = 0 THEN [num |-> 0, den |-> 1] ELSE [num |-> num \div g, den |-> den \div g]

RECURSIVE ISqrtIn(_, _, _)
ISqrtIn(x, lo, hi) ==
    IF lo >= hi THEN lo
    ELSE LET mid == (lo + hi + 1) \div 2
         IN  IF mid * mid <= x THEN ISqrtIn(x, mid, hi) ELSE ISqrtIn(x, lo, mid - 1)

\* floor(sqrt(x)) for 0 <= x < 2^31.
ISqrt(x) == ISqrtIn(x, 0, Min2(x, 46340))

RECURSIVE SeqSum(_)
SeqSum(s) == IF s = << >> THEN 0 ELSE Head(s) + SeqSum(Tail(s))

RECURSIVE SeqSumSq(_)
SeqSumSq(s) == IF s = << >> THEN 0 ELSE Head(s) * Head(s) + SeqSumSq(Tail(s))

RECURSIVE Insert(_, _)
Insert(x, s) ==
    IF s = << >> THEN <<x>>
    ELSE IF x <= Head(s) THEN <<x>> \o s ELSE <<Head(s)>> \o Insert(x, Tail(s))

RECURSIVE Sorted(_)
Sorted(s) == IF s = << >> THEN << >> ELSE Insert(Head(s), Sorted(Tail(s)))

\* ------------------------------------------------------- feature extraction

\* dict.get(key, default)
Get(d, key, default) == IF key \in DOMAIN d THEN d[key] ELSE default

EmptyDict == << >>

\* The function f with every value computed: f @@ g holds f's values
\* explicitly, and nothing is added by the empty g.
Tabulated(f) == f @@ EmptyDict

\* The keys of the features dict, in insertion order.
FeatureOrder ==
    << "login_frequency", "session_duration", "hour_of_day", "day_of_week",
       "avg_typing_speed", "typing_rhythm_variance", "tap_pressure", "swipe_velocity",
       "typical_screen_sequence", "direct_to_sensitive", "page_dwell_time",
       "transaction_amount", "payee_familiarity", "transaction_frequency",
       "balance_check_frequency",
       "location_familiarity", "wifi_pattern_match", "bluetooth_devices", "travel_distance",
       "tremor_signature", "gyroscope_pattern", "accelerometer_pattern",
       "panic_gesture_triggered", "decoy_interaction_normal" >>

FeatureNames == {FeatureOrder[i] : i \in DOMAIN FeatureOrder}

\* extract_features(user_data) at clock reading clk = [hour, weekday].
extract_features(user_data, clk) ==
    LET keystroke_data == Get(user_data, "keystroke_dynamics", EmptyDict)
        navigation     == Get(user_data, "navigation_pattern", EmptyDict)
        transaction    == Get(user_data, "transaction_data", EmptyDict)
        location       == Get(user_data, "location_data", EmptyDict)
        biometric      == Get(user_data, "biometric_data", EmptyDict)
    IN  [ login_frequency          |-> Get(user_data, "daily_login_count", 0),
          session_duration         |-> Get(user_data, "session_time", 0),
          hour_of_day              |-> Deci(clk.hour, 0),
          day_of_week              |-> Deci(clk.weekday, 0),
          avg_typing_speed         |-> Get(keystroke_data, "avg_speed", 0),
          typing_rhythm_variance   |-> Get(keystroke_data, "rhythm_variance", 0),
          tap_pressure             |-> Get(keystroke_data, "avg_pressure", 0),
          swipe_velocity           |-> Get(keystroke_data, "swipe_velocity", 0),
          typical_screen_sequence  |-> Get(navigation, "screen_sequence_score", 0),
          direct_to_sensitive      |-> Get(navigation, "direct_sensitive_access", 0),
          page_dwell_time          |-> Get(navigation, "avg_dwell_time", 0),
          transaction_amount       |-> Get(transaction, "amount", 0),
          payee_familiarity        |-> Get(transaction, "payee_score", Deci(1, 0)),
          transaction_frequency    |-> Get(transaction, "frequency", 0),
          balance_check_frequency  |-> Get(transaction, "balance_checks", 0),
          location_familiarity     |-> Get(location, "familiarity_score", Deci(1, 0)),
          wifi_pattern_match       |-> Get(location, "wifi_match", Deci(1, 0)),
          bluetooth_devices        |-> Get(location, "bluetooth_count", 0),
          travel_distance          |-> Get(location, "travel_distance", 0),
          tremor_signature         |-> Get(biometric, "tremor_match_score", Deci(1, 0)),
          gyroscope_pattern        |-> Get(biometric, "gyro_similarity", Deci(1, 0)),
          accelerometer_pattern    |-> Get(biometric, "accel_similarity", Deci(1, 0)),
          panic_gesture_triggered  |-> Get(user_data, "panic_gesture", 0),
          decoy_interaction_normal |-> Get(user_data, "decoy_response", Deci(1, 0)) ]

\* ---------------------------------------------------------- baseline profile

StatNames == {"mean", "std", "min", "max", "percentile_25", "percentile_75"}

\* np.percentile(values, 25 * quarters), linear interpolation between order
\* statistics: position (n - 1) * quarters / 4 in the sorted sample.
Percentile(values, quarters) ==
    LET s   == Sorted(values)
        pos == (Len(s) - 1) * quarters
        lo  == pos \div 4 + 1
        r   == pos % 4
    IN  IF r = 0 THEN Frac(s[lo], 1)
        ELSE Frac(4 * s[lo] + r * (s[lo + 1] - s[lo]), 4)

\* The six statistics of one feature's sample (a non-empty sequence).
ComputeStats(values) ==
    LET n == Len(values)
        S == SeqSum(values)
        Q == SeqSumSq(values)
        s == Sorted(values)
    IN  [ mean          |-> Frac(S, n),
          std           |-> [radicand |-> Frac(n * Q - S * S, n * n)],
          min           |-> s[1],
          max           |-> s[n],
          percentile_25 |-> Percentile(values, 1),
          percentile_75 |-> Percentile(values, 3) ]

\* The empty profile build_user_profile starts from.
NewProfile(user_id) ==
    [ user_id |-> user_id, baseline_features |-> EmptyDict,
      behavioral_patterns |-> EmptyDict, risk_factors |-> << >> ]

\* A Python list of numbers, held as a record so that it can be told from the
\* dict of statistics that replaces it.
ListOf(values) == [values |-> values]

\* The first loop of build_user_profile (lines 90-95): per feature, the list of
\* its values over the sessions; no key at all when there is no session.
CollectFeatures(profile, historical_data, clk) ==
    LET features == [ i \in DOMAIN historical_data |->
                        extract_features(historical_data[i], clk) ]
    IN  [ profile EXCEPT !.baseline_features =
            IF historical_data = << >> THEN EmptyDict
            ELSE [ key \in FeatureNames |->
                     ListOf([i \in DOMAIN historical_data |-> features[i][key]]) ] ]

\* The second loop (lines 98-107): each list is replaced by its statistics.
ComputeMeasures(profile) ==
    [ profile EXCEPT !.baseline_features =
        [ key \in DOMAIN profile.baseline_features |->
            ComputeStats(profile.baseline_features[key].values) ] ]

\* -------------------------------------------------------------------- inputs

Ids == {"user_001", "user_002"}

\* Clock readings datetime.now() can give.
Clocks == {[hour |-> 9, weekday |-> 2], [hour |-> 10, weekday |-> 2]}

s_default == EmptyDict

s_far == [location_data |-> [familiarity_score |-> Deci(0, 1)]]

s_panic == [panic_gesture |-> Deci(1, 0)]

s_direct == [navigation_pattern |-> [direct_sensitive_access |-> Deci(1, 0)]]

s_unfamiliar == [location_data |-> [familiarity_score |-> Deci(0, 2)]]

s_mismatch ==
    [ location_data  |-> [familiarity_score |-> Deci(0, 2)],
      biometric_data |-> [tremor_match_score |-> Deci(0, 2)] ]

s_duress ==
    [ panic_gesture      |-> Deci(1, 0),
      navigation_pattern |-> [direct_sensitive_access |-> Deci(1, 0)] ]

s_attack ==
    [ daily_login_count  |-> Deci(1, 0),
      panic_gesture      |-> Deci(1, 0),
      navigation_pattern |-> [direct_sensitive_access |-> Deci(1, 0)],
      location_data      |-> [familiarity_score |-> Deci(0, 2)],
      biometric_data     |-> [tremor_match_score |-> Deci(0, 2)] ]

s_fraud == [is_legitimate |-> 0]

\* Sessions scored and classified.
Sessions ==
    {s_default, s_far, s_panic, s_direct, s_unfamiliar, s_mismatch, s_duress, s_attack}

\* Sessions a user's history is made of.
HistSessions == {s_default, s_far}

\* Sessions a training batch is made of.
TrainSessions == {s_default, s_fraud}

\* Inputs of the calls that run concurrently.
ConcHistories == {<< >>, <<s_default>>, <<s_default, s_far>>}

ConcSessions == {s_unfamiliar}

MaxHist == 2

MaxBatch == 3

MaxTrainCalls == 2

SeqsUpTo(S, n) == UNION {[1..k -> S] : k \in 0..n}

Histories == SeqsUpTo(HistSessions, MaxHist)

Batches == SeqsUpTo(TrainSessions, MaxBatch)

\* build_user_profile(user_id, historical_data), lines 80-110.
BuildResult(user_id, historical_data, clk) ==
    ComputeMeasures(CollectFeatures(NewProfile(user_id), historical_data, clk))

\* BuildResult tabulated over the inputs, so that each profile is computed once.
BuildTable ==
    Tabulated([ user_id \in Ids, historical_data \in Histories, clk \in Clocks |->
                  BuildResult(user_id, historical_data, clk) ])

\* The profiles the inputs can give.
Profiles == {BuildTable[x] : x \in DOMAIN BuildTable}

\* --------------------------------------------------------------- risk score

\* 1e-6, the floor of line 178, is 1/StdFloorInv tenths.
StdFloorInv == 100000

\* max(baseline['std'], 1e-6) keeps the std unless it is below the floor.  The
\* std is sqrt(radicand) tenths, so it is below 1/StdFloorInv tenths exactly
\* when radicand.num * StdFloorInv^2 < radicand.den; with the denominator a
\* machine integer (below 2^31 < StdFloorInv^2) that is radicand.num = 0.
StdAboveFloor(std) == std.radicand.num >= 1

\* abs(value - baseline['mean']) as the numerator of a fraction over mean.den.
Distance(value, baseline) == Abs(value * baseline.mean.den - baseline.mean.num)

\* z_score > 2, decided exactly.
ZExceeds(value, baseline) ==
    LET A  == Distance(value, baseline)
        md == baseline.mean.den
        r  == baseline.std.radicand
    IN  IF StdAboveFloor(baseline.std)
        THEN A * A * r.den > 4 * md * md * r.num
        ELSE A * StdFloorInv > 2 * md

\* z_score in hundredths, rounded down.
ZScore(value, baseline) ==
    LET A  == Distance(value, baseline)
        md == baseline.mean.den
        r  == baseline.std.radicand
    IN  IF StdAboveFloor(baseline.std)
        THEN ISqrt((10000 * A * A * r.den) \div (md * md * r.num))
        ELSE (A * StdFloorInv * 100) \div md

\* f"{z_score:.2f}": z_score to the nearest hundredth.
TwoDecimals(value, baseline) ==
    LET A  == Distance(value, baseline)
        md == baseline.mean.den
        r  == baseline.std.radicand
        n  == A * StdFloorInv * 100
    IN  IF StdAboveFloor(baseline.std)
        THEN (ISqrt((40000 * A * A * r.den) \div (md * md * r.num)) + 1) \div 2
        ELSE n \div md + (IF 2 * (n % md) >= md THEN 1 ELSE 0)

\* f"{feature}: {z_score:.2f} std devs"
DeviationFactor(feature, value, baseline) ==
    [feature |-> feature, std_devs |-> TwoDecimals(value, baseline)]

\* The loop of lines 175-182 from position i of the features dict on, acc
\* holding risk_factors and total_deviation so far.
RECURSIVE DeviationLoop(_, _, _, _)
DeviationLoop(i, current_features, baseline_features, acc) ==
    IF i > Len(FeatureOrder) THEN acc
    ELSE LET feature == FeatureOrder[i]
             value   == current_features[feature]
         IN  IF /\ feature \in DOMAIN baseline_features
                /\ ZExceeds(value, baseline_features[feature])
             THEN DeviationLoop(i + 1, current_features, baseline_features,
                    [ risk_factors    |-> Append(acc.risk_factors,
                          DeviationFactor(feature, value, baseline_features[feature])),
                      total_deviation |-> acc.total_deviation
                                            + ZScore(value, baseline_features[feature]) ])
             ELSE DeviationLoop(i + 1, current_features, baseline_features, acc)

\* The four weights of lines 188, 192, 196, 200, in hundredths.
PanicWeight == 500

DirectWeight == 300

LocationWeight == 200

BiometricWeight == 400

\* One "if ...: risk_factors.append(text); total_deviation += weight".
Boost(acc, fires, text, weight) ==
    IF fires
    THEN [ risk_factors    |-> Append(acc.risk_factors, [text |-> text]),
           total_deviation |-> acc.total_deviation + weight ]
    ELSE acc

\* RuleBoosts with the location check made before the panic check.
RuleBoostsReordered(current_features, acc) ==
    LET a1 == Boost(acc, Get(current_features, "location_familiarity", Deci(1, 0)) < Deci(0, 3),
                    "Unfamiliar location", LocationWeight)
        a2 == Boost(a1, Get(current_features, "panic_gesture_triggered", 0) = Deci(1, 0),
                    "Panic gesture detected", PanicWeight)
        a3 == Boost(a2, Get(current_features, "direct_to_sensitive", 0) = Deci(1, 0),
                    "Direct access to sensitive area", DirectWeight)
        a4 == Boost(a3, Get(current_features, "tremor_signature", Deci(1, 0)) < Deci(0, 7),
                    "Biometric signature mismatch", BiometricWeight)
    IN  a4

\* Lines 185-200: the four high-risk indicators, in source order.
RuleBoosts(current_features, acc) ==
    LET a1 == Boost(acc, Get(current_features, "panic_gesture_triggered", 0) = Deci(1, 0),
                    "Panic gesture detected", PanicWeight)
        a2 == Boost(a1, Get(current_features, "direct_to_sensitive", 0) = Deci(1, 0),
                    "Direct access to sensitive area", DirectWeight)
        a3 == Boost(a2, Get(current_features, "location_familiarity", Deci(1, 0)) < Deci(0, 3),
                    "Unfamiliar location", LocationWeight)
        a4 == Boost(a3, Get(current_features, "tremor_signature", Deci(1, 0)) < Deci(0, 7),
                    "Biometric signature mismatch", BiometricWeight)
    IN  a4

\* Normalize without the upper clamp.
NormalizeUncapped(total_deviation) == Max2(total_deviation, 50)

\* Line 203: max(min(total_deviation / 10, 1.0), 0.05), in thousandths.
Normalize(total_deviation) == Max2(Min2(total_deviation, 1000), 50)

\* Line 166: the risk returned for a user without profile, in thousandths.
UnknownUserRisk == 900

\* What calculate_risk_score returns when user_id has no profile: the bare
\* number of line 166.
UnknownUserReturn == [kind |-> "float", value |-> UnknownUserRisk]

\* Lines 171-200: risk_factors and total_deviation before normalisation.
Deviations(profile, current_session, clk) ==
    LET current_features == extract_features(current_session, clk)
    IN  RuleBoosts(current_features,
            DeviationLoop(1, current_features, profile.baseline_features,
                          [risk_factors |-> << >>, total_deviation |-> 0]))

\* Lines 168-205 for the profile found: the pair returned.
ScoreAgainst(profile, current_session, clk) ==
    LET d == Deviations(profile, current_session, clk)
    IN  [kind |-> "tuple", items |-> <<Normalize(d.total_deviation), d.risk_factors>>]

\* ScoreAgainst tabulated over the inputs, so that each score is computed once.
ScoreTable ==
    Tabulated([ profile \in Profiles, current_session \in Sessions, clk \in Clocks |->
                  ScoreAgainst(profile, current_session, clk) ])

\* calculate_risk_score(user_id, current_session) on the profiles held.
calculate_risk_score(profiles, user_id, current_session, clk) ==
    IF user_id \notin DOMAIN profiles
    THEN UnknownUserReturn
    ELSE ScoreTable[profiles[user_id], current_session, clk]

\* ----------------------------------------------------------- classification

risk_thresholds == [low |-> 300, medium |-> 600, high |-> 800]

\* Decide with strict comparisons.
DecideStrict(risk_score) ==
    IF risk_score > risk_thresholds.high
    THEN [classification |-> "BLOCK", action |-> "Block transaction and lock session"]
    ELSE IF risk_score > risk_thresholds.medium
    THEN [ classification |-> "CHALLENGE",
           action |-> "Request additional authentication (OTP/Biometric)" ]
    ELSE IF risk_score > risk_thresholds.low
    THEN [classification |-> "MONITOR", action |-> "Continue with increased monitoring"]
    ELSE [classification |-> "ALLOW", action |-> "Continue normally"]

\* Lines 239-250.
Decide(risk_score) ==
    IF risk_score >= risk_thresholds.high
    THEN [classification |-> "BLOCK", action |-> "Block transaction and lock session"]
    ELSE IF risk_score >= risk_thresholds.medium
    THEN [ classification |-> "CHALLENGE",
           action |-> "Request additional authentication (OTP/Biometric)" ]
    ELSE IF risk_score >= risk_thresholds.low
    THEN [classification |-> "MONITOR", action |-> "Continue with increased monitoring"]
    ELSE [classification |-> "ALLOW", action |-> "Continue normally"]


\* Lines 214-217: the scaler the feature vector goes through; scaled_by 0 is
\* the raw vector passed on when no scaler is held.
ScalerRead(held_scalers) ==
    IF "main" \notin DOMAIN held_scalers THEN [ok |-> TRUE, scaled_by |-> 0]
    ELSE IF held_scalers.main.fitted
    THEN [ok |-> TRUE, scaled_by |-> held_scalers.main.call]
    ELSE [ok |-> FALSE, error |-> "NotFittedError"]

\* Lines 222-225: predict and predict_proba(...)[0][1] of the random forest.
\* A forest fitted on one class has a single probability column.
RfRead(held_models, scaled_by, predictions) ==
    IF "random_forest" \notin DOMAIN held_models
    THEN [ok |-> TRUE, predictions |-> predictions]
    ELSE LET rf == held_models.random_forest
         IN  IF ~rf.fitted THEN [ok |-> FALSE, error |-> "NotFittedError"]
             ELSE IF rf.classes < 2 THEN [ok |-> FALSE, error |-> "IndexError"]
             ELSE [ ok |-> TRUE,
                    predictions |-> ("random_forest" :>
                        [fitted_by |-> rf.call, scaled_by |-> scaled_by]) @@ predictions ]

\* Lines 227-233: predict and decision_function of the isolation forest.
IfRead(held_models, scaled_by, predictions) ==
    IF "isolation_forest" \notin DOMAIN held_models
    THEN [ok |-> TRUE, predictions |-> predictions]
    ELSE LET iso == held_models.isolation_forest
         IN  IF ~iso.fitted THEN [ok |-> FALSE, error |-> "NotFittedError"]
             ELSE [ ok |-> TRUE,
                    predictions |-> ("isolation_forest" :>
                        [fitted_by |-> iso.call, scaled_by |-> scaled_by]) @@ predictions ]

Returned(value) == [status |-> "returned", value |-> value]

Raised(error) == [status |-> "raised", error |-> error]

\* Lines 236-260: the unpacking of calculate_risk_score's return value into
\* (risk_score, risk_factors), the decision and the returned record.
Assess(profiles, user_id, current_session, clk, predictions) ==
    LET r == calculate_risk_score(profiles, user_id, current_session, clk)
    IN  IF r.kind # "tuple" THEN Raised("TypeError")
        ELSE LET risk_score == r.items[1]
                 decision   == Decide(risk_score)
             IN  Returned([ user_id           |-> user_id,
                            classification    |-> decision.classification,
                            action            |-> decision.action,
                            risk_score        |-> risk_score,
                            risk_factors      |-> r.items[2],
                            model_predictions |-> predictions,
                            timestamp         |-> clk ])

\* classify_user(user_id, current_session) run without interruption.
classify_user(profiles, held_scalers, held_models, user_id, current_session, clk) ==
    LET sc == ScalerRead(held_scalers)
    IN  IF ~sc.ok THEN Raised(sc.error)
        ELSE LET rf == RfRead(held_models, sc.scaled_by, EmptyDict)
             IN  IF ~rf.ok THEN Raised(rf.error)
                 ELSE LET iso == IfRead(held_models, sc.scaled_by, rf.predictions)
                      IN  IF ~iso.ok THEN Raised(iso.error)
                          ELSE Assess(profiles, user_id, current_session, clk,
                                      iso.predictions)

\* ------------------------------------------------------------------ training

\* y of lines 117-126.
Labels(training_data) ==
    [i \in DOMAIN training_data |-> Get(training_data[i], "is_legitimate", 1)]

\* train_test_split(test_size=0.2): the size of the test partition.
TestSize(n) == (n + 4) \div 5

\* The partitions train_test_split can produce: the indices are shuffled, so
\* any TestSize(n) of them may form the test partition.  None when the train
\* partition would be empty (train_test_split raises ValueError).
TrainPartitions(n) ==
    IF n - TestSize(n) < 1 THEN {}
    ELSE {(1..n) \ test : test \in {t \in SUBSET (1..n) : Cardinality(t) = TestSize(n)}}

\* The classes of y_train.
TrainClasses(training_data, train) == {Labels(training_data)[i] : i \in train}

Unfitted(call) == [fitted |-> FALSE, call |-> call]

Fitted(obj) == [obj EXCEPT !.fitted = TRUE]

\* Line 142: the forest fitted on (X_train_scaled, y_train).
FittedForest(obj, classes) == [fitted |-> TRUE, call |-> obj.call, classes |-> Cardinality(classes)]

\* Line 149: fit on X_train_scaled[y_train == 1] raises ValueError on no row.
IsolationFitRaises(classes) == 1 \notin classes


\* --------------------------------------------------------------------- state

VARIABLES
    user_profiles,  \* self.user_profiles: user_id -> profile
    scalers,        \* self.scalers: "main" -> scaler object
    models,         \* self.models: "random_forest", "isolation_forest" -> model object
    train_calls,    \* number of train_models calls that created objects so far
    now,            \* the reading datetime.now() gives
    last,           \* the latest completed call and its outcome
    builder,        \* a build_user_profile call in progress
    trainer,        \* a train_models call in progress
    reader          \* a classify_user call in progress

vars == <<user_profiles, scalers, models, train_calls, now, last, builder, trainer, reader>>

held == <<user_profiles, scalers, models, train_calls>>

threads == <<builder, trainer, reader>>

Idle == [pc |-> "idle"]

\* __init__ (lines 18-27).
Init ==
    /\ user_profiles = EmptyDict
    /\ scalers = EmptyDict
    /\ models = EmptyDict
    /\ train_calls = 0
    /\ now \in Clocks
    /\ last = [op |-> "none"]
    /\ builder = Idle
    /\ trainer = Idle
    /\ reader = Idle

\* Time passes.
Tick ==
    /\ \E clk \in Clocks : clk.hour > now.hour /\ now' = clk
    /\ UNCHANGED <<held, last, threads>>

\* ------------------------------------------------- calls run one at a time

\* build_user_profile(user_id, historical_data), lines 80-110.
BuildUserProfile(user_id, historical_data) ==
    /\ user_profiles' = (user_id :> BuildTable[user_id, historical_data, now]) @@ user_profiles
    /\ last' = [ op |-> "build_user_profile", user_id |-> user_id,
                 historical_data |-> historical_data, clk |-> now,
                 outcome |-> Returned(user_profiles'[user_id]) ]
    /\ UNCHANGED <<scalers, models, train_calls, now, threads>>

\* calculate_risk_score(user_id, current_session), lines 163-205.
CalculateRiskScore(user_id, current_session) ==
    /\ last' = [ op |-> "calculate_risk_score", user_id |-> user_id,
                 current_session |-> current_session, clk |-> now,
                 outcome |-> Returned(calculate_risk_score(user_profiles, user_id,
                                                           current_session, now)) ]
    /\ UNCHANGED <<held, now, threads>>

\* classify_user(user_id, current_session), lines 207-260.
ClassifyUser(user_id, current_session) ==
    /\ last' = [ op |-> "classify_user", user_id |-> user_id,
                 current_session |-> current_session, clk |-> now,
                 outcome |-> classify_user(user_profiles, scalers, models, user_id,
                                           current_session, now) ]
    /\ UNCHANGED <<held, now, threads>>

Next ==
    \/ Tick
    \/ \E user_id \in Ids, historical_data \in Histories :
          BuildUserProfile(user_id, historical_data)
    \/ \E user_id \in Ids, current_session \in Sessions :
          CalculateRiskScore(user_id, current_session)
    \/ \E user_id \in Ids, current_session \in Sessions :
          ClassifyUser(user_id, current_session)

Spec == Init /\ [][Next]_vars


\* ------------------------------------------------ calls run concurrently
\* One build_user_profile, one train_models and one classify_user can be in
\* progress at a time, each advancing by the steps below;
\* calculate_risk_score runs between any two of their steps.

\* Lines 82-87: the local profile is created.
BuildBegin(user_id, historical_data) ==
    /\ builder.pc = "idle"
    /\ builder' = [ pc |-> "collect", user_id |-> user_id,
                    historical_data |-> historical_data, clk |-> now,
                    profile |-> NewProfile(user_id) ]
    /\ UNCHANGED <<held, now, last, trainer, reader>>

\* BuildCollect writing its lists into the stored profile instead of the
\* local one.
BuildCollectInPlace ==
    /\ builder.pc = "collect"
    /\ builder' = [ builder EXCEPT
                      !.pc = "measure", !.clk = now,
                      !.profile = CollectFeatures(builder.profile,
                                                  builder.historical_data, now) ]
    /\ user_profiles' = (builder.user_id :> builder'.profile) @@ user_profiles
    /\ UNCHANGED <<scalers, models, train_calls, now, last, trainer, reader>>

\* Lines 90-95: the values are collected into the local profile.
BuildCollect ==
    /\ builder.pc = "collect"
    /\ builder' = [ builder EXCEPT
                      !.pc = "measure", !.clk = now,
                      !.profile = CollectFeatures(builder.profile,
                                                  builder.historical_data, now) ]
    /\ UNCHANGED <<held, now, last, trainer, reader>>

\* Lines 98-107: the statistics are computed in the local profile.
BuildMeasure ==
    /\ builder.pc = "measure"
    /\ builder' = [ builder EXCEPT
                      !.pc = "store", !.profile = ComputeMeasures(builder.profile) ]
    /\ UNCHANGED <<held, now, last, trainer, reader>>

\* Lines 109-110: the profile is stored under user_id and returned.
BuildStore ==
    /\ builder.pc = "store"
    /\ user_profiles' = (builder.user_id :> builder.profile) @@ user_profiles
    /\ last' = [ op |-> "build_user_profile", user_id |-> builder.user_id,
                 historical_data |-> builder.historical_data, clk |-> builder.clk,
                 outcome |-> Returned(builder.profile) ]
    /\ builder' = Idle
    /\ UNCHANGED <<scalers, models, train_calls, now, trainer, reader>>

\* Lines 116-129: X, y and the split; ValueError when the train partition
\* would be empty.
TrainBegin(training_data) ==
    /\ trainer.pc = "idle"
    /\ train_calls < MaxTrainCalls
    /\ IF TrainPartitions(Len(training_data)) = {}
       THEN /\ last' = [op |-> "train_models", outcome |-> Raised("ValueError")]
            /\ UNCHANGED <<train_calls, trainer>>
       ELSE /\ \E train \in TrainPartitions(Len(training_data)) :
                  trainer' = [ pc |-> "scaler_new", call |-> train_calls + 1,
                               classes |-> TrainClasses(training_data, train) ]
            /\ train_calls' = train_calls + 1
            /\ UNCHANGED last
    /\ UNCHANGED <<user_profiles, scalers, models, now, builder, reader>>

\* Line 132: self.scalers['main'] = StandardScaler().
TrainScalerNew ==
    /\ trainer.pc = "scaler_new"
    /\ scalers' = ("main" :> Unfitted(trainer.call)) @@ scalers
    /\ trainer' = [trainer EXCEPT !.pc = "scaler_fit"]
    /\ UNCHANGED <<user_profiles, models, train_calls, now, last, builder, reader>>

\* Lines 133-134: self.scalers['main'].fit_transform(X_train).
TrainScalerFit ==
    /\ trainer.pc = "scaler_fit"
    /\ scalers' = [scalers EXCEPT !.main = Fitted(@)]
    /\ trainer' = [trainer EXCEPT !.pc = "forest_new"]
    /\ UNCHANGED <<user_profiles, models, train_calls, now, last, builder, reader>>

\* Lines 137-141: self.models['random_forest'] = RandomForestClassifier(...).
TrainForestNew ==
    /\ trainer.pc = "forest_new"
    /\ models' = ("random_forest" :> Unfitted(trainer.call)) @@ models
    /\ trainer' = [trainer EXCEPT !.pc = "forest_fit"]
    /\ UNCHANGED <<user_profiles, scalers, train_calls, now, last, builder, reader>>

\* Line 142: self.models['random_forest'].fit(X_train_scaled, y_train).
TrainForestFit ==
    /\ trainer.pc = "forest_fit"
    /\ models' = [models EXCEPT !.random_forest = FittedForest(@, trainer.classes)]
    /\ trainer' = [trainer EXCEPT !.pc = "isolation_new"]
    /\ UNCHANGED <<user_profiles, scalers, train_calls, now, last, builder, reader>>

\* Lines 145-148: self.models['isolation_forest'] = IsolationForest(...).
TrainIsolationNew ==
    /\ trainer.pc = "isolation_new"
    /\ models' = ("isolation_forest" :> Unfitted(trainer.call)) @@ models
    /\ trainer' = [trainer EXCEPT !.pc = "isolation_fit"]
    /\ UNCHANGED <<user_profiles, scalers, train_calls, now, last, builder, reader>>

\* Lines 149-161: the fit on the legitimate rows of the train partition, which
\* raises ValueError when there is none; then the reports and the return.
TrainIsolationFit ==
    /\ trainer.pc = "isolation_fit"
    /\ IF IsolationFitRaises(trainer.classes)
       THEN /\ last' = [op |-> "train_models", outcome |-> Raised("ValueError")]
            /\ UNCHANGED models
       ELSE /\ models' = [models EXCEPT !.isolation_forest = Fitted(@)]
            /\ last' = [op |-> "train_models", outcome |-> Returned("models")]
    /\ trainer' = Idle
    /\ UNCHANGED <<user_profiles, scalers, train_calls, now, builder, reader>>

\* The outcome record of the classify_user call in progress.
ClassifyOutcome(outcome) ==
    [ op |-> "classify_user", user_id |-> reader.user_id,
      current_session |-> reader.current_session, clk |-> now, outcome |-> outcome ]

\* Lines 210-211: the features and the feature vector.
ClassifyBegin(user_id, current_session) ==
    /\ reader.pc = "idle"
    /\ reader' = [ pc |-> "scale", user_id |-> user_id,
                   current_session |-> current_session,
                   scaled_by |-> 0, predictions |-> EmptyDict ]
    /\ UNCHANGED <<held, now, last, builder, trainer>>

\* Lines 214-217: the vector goes through the scaler held, if any.
ClassifyScale ==
    /\ reader.pc = "scale"
    /\ LET r == ScalerRead(scalers)
       IN  IF r.ok
           THEN /\ reader' = [reader EXCEPT !.pc = "forest", !.scaled_by = r.scaled_by]
                /\ UNCHANGED last
           ELSE /\ reader' = Idle
                /\ last' = ClassifyOutcome(Raised(r.error))
    /\ UNCHANGED <<held, now, builder, trainer>>

\* Lines 222-225: the random forest held, if any, predicts.
ClassifyForest ==
    /\ reader.pc = "forest"
    /\ LET r == RfRead(models, reader.scaled_by, reader.predictions)
       IN  IF r.ok
           THEN /\ reader' = [reader EXCEPT !.pc = "isolation", !.predictions = r.predictions]
                /\ UNCHANGED last
           ELSE /\ reader' = Idle
                /\ last' = ClassifyOutcome(Raised(r.error))
    /\ UNCHANGED <<held, now, builder, trainer>>

\* Lines 227-233: the isolation forest held, if any, predicts.
ClassifyIsolation ==
    /\ reader.pc = "isolation"
    /\ LET r == IfRead(models, reader.scaled_by, reader.predictions)
       IN  IF r.ok
           THEN /\ reader' = [reader EXCEPT !.pc = "assess", !.predictions = r.predictions]
                /\ UNCHANGED last
           ELSE /\ reader' = Idle
                /\ last' = ClassifyOutcome(Raised(r.error))
    /\ UNCHANGED <<held, now, builder, trainer>>

\* Lines 236-260: the risk score, the decision and the returned record.
ClassifyAssess ==
    /\ reader.pc = "assess"
    /\ last' = ClassifyOutcome(Assess(user_profiles, reader.user_id,
                                      reader.current_session, now, reader.predictions))
    /\ reader' = Idle
    /\ UNCHANGED <<held, now, builder, trainer>>

ClassifySteps ==
    \/ ClassifyScale
    \/ ClassifyForest
    \/ ClassifyIsolation
    \/ ClassifyAssess

\* Profiling in progress while scores and classifications are asked for.
NextProfiling ==
    \/ \E user_id \in Ids, historical_data \in ConcHistories :
          BuildBegin(user_id, historical_data)
    \/ BuildCollect
    \/ BuildMeasure
    \/ BuildStore
    \/ \E user_id \in Ids, current_session \in ConcSessions :
          CalculateRiskScore(user_id, current_session)
    \/ \E user_id \in Ids, current_session \in ConcSessions :
          ClassifyBegin(user_id, current_session)
    \/ ClassifySteps

SpecProfiling == Init /\ [][NextProfiling]_vars

\* Training in progress while classifications are asked for; the one profile
\* stored lets a classification run to its end.
NextTraining ==
    \/ BuildUserProfile("user_001", <<s_default>>)
    \/ \E training_data \in Batches : TrainBegin(training_data)
    \/ TrainScalerNew
    \/ TrainScalerFit
    \/ TrainForestNew
    \/ TrainForestFit
    \/ TrainIsolationNew
    \/ TrainIsolationFit
    \/ \E current_session \in ConcSessions : ClassifyBegin("user_001", current_session)
    \/ ClassifySteps

SpecTraining == Init /\ [][NextTraining]_vars

\* -------------------------------------------- claims on calls run one at a time

Scored == last.op = "calculate_risk_score"

Classified == last.op = "classify_user"

LastUserKnown == last.user_id \in DOMAIN user_profiles

\* The features the latest scored or classified session extracts to.
LastFeatures == extract_features(last.current_session, last.clk)

LastBaseline == user_profiles[last.user_id].baseline_features

\* C1: classify_user for a user without stored profile returns an assessment
\* with risk score 0.9 and classification BLOCK.
C1_UnknownUserIsBlocked ==
    (Classified /\ ~LastUserKnown) =>
        /\ last.outcome.status = "returned"
        /\ last.outcome.value.risk_score = 900
        /\ last.outcome.value.classification = "BLOCK"

\* C2: calculate_risk_score for a user without stored profile returns the pair
\* (0.9, []), the shape it returns for known users.
C2_UnknownUserScorePair ==
    (Scored /\ ~LastUserKnown) =>
        /\ last.outcome.status = "returned"
        /\ last.outcome.value.kind = "tuple"
        /\ last.outcome.value.items = <<900, << >> >>

\* C3: build_user_profile with no historical session raises
\* InsufficientDataError and stores no profile, so no stored profile has an
\* empty baseline.
C3_EmptyHistoryRejected ==
    /\ (last.op = "build_user_profile" /\ last.historical_data = << >>) =>
          last.outcome = Raised("InsufficientDataError")
    /\ \A user_id \in DOMAIN user_profiles :
          user_profiles[user_id].baseline_features # EmptyDict

\* The baseline's sample of the panic flag was 0 throughout.
PanicFreeBaseline ==
    /\ "panic_gesture_triggered" \in DOMAIN LastBaseline
    /\ LastBaseline["panic_gesture_triggered"].max = 0
    /\ LastBaseline["panic_gesture_triggered"].min = 0

\* Every feature but the panic flag is at its baseline mean.
OthersAtBaselineMean ==
    \A feature \in FeatureNames \ {"panic_gesture_triggered"} :
        Distance(LastFeatures[feature], LastBaseline[feature]) = 0

\* C4: against a baseline built from sessions without panic gesture, a session
\* with the panic flag set and every other feature at its baseline mean scores
\* exactly 0.5 (total deviation 5).
C4_PanicAloneScoresHalf ==
    (Scored /\ LastUserKnown /\ PanicFreeBaseline /\ OthersAtBaselineMean
        /\ LastFeatures["panic_gesture_triggered"] = Deci(1, 0)) =>
        last.outcome.value.items[1] = 500

\* The risk score a calculate_risk_score return value carries.
RiskOf(value) == IF value.kind = "tuple" THEN value.items[1] ELSE value.value

\* C5: every risk score returned by calculate_risk_score, and every risk score
\* in a classify_user result, lies in [0.05, 1.0].
C5_RiskScoreInRange ==
    /\ Scored => (RiskOf(last.outcome.value) >= 50 /\ RiskOf(last.outcome.value) <= 1000)
    /\ (Classified /\ last.outcome.status = "returned") =>
          (last.outcome.value.risk_score >= 50 /\ last.outcome.value.risk_score <= 1000)

\* C5 witness: a total deviation far above 10, against a baseline whose every
\* feature has std 0, was clamped to 1.0.
C5_Witness ==
    /\ Scored /\ LastUserKnown
    /\ LastBaseline # EmptyDict
    /\ \A feature \in FeatureNames : ~StdAboveFloor(LastBaseline[feature].std)
    /\ Deviations(user_profiles[last.user_id], last.current_session, last.clk)
          .total_deviation > 1000000
    /\ last.outcome.value.items[1] = 1000

\* C6: the classification is decided by the risk score alone, top-down with
\* inclusive lower bounds 0.8, 0.6, 0.3, each classification with its action.
C6_DecisionByThreshold ==
    (Classified /\ last.outcome.status = "returned") =>
        LET v == last.outcome.value
            r == v.risk_score
        IN  /\ v.classification \in {"BLOCK", "CHALLENGE", "MONITOR", "ALLOW"}
            /\ (v.classification = "BLOCK") <=> (r >= 800)
            /\ (v.classification = "CHALLENGE") <=> (r >= 600 /\ r < 800)
            /\ (v.classification = "MONITOR") <=> (r >= 300 /\ r < 600)
            /\ (v.classification = "ALLOW") <=> (r < 300)
            /\ (v.classification = "BLOCK") =>
                  v.action = "Block transaction and lock session"
            /\ (v.classification = "CHALLENGE") =>
                  v.action = "Request additional authentication (OTP/Biometric)"
            /\ (v.classification = "MONITOR") =>
                  v.action = "Continue with increased monitoring"
            /\ (v.classification = "ALLOW") => v.action = "Continue normally"

\* C6 witness: a score exactly on the low threshold was classified MONITOR.
C6_Witness ==
    /\ Classified /\ last.outcome.status = "returned"
    /\ last.outcome.value.risk_score = 300
    /\ last.outcome.value.classification = "MONITOR"

\* The features in which two sessions scored at the same clock differ.
Differing(session_a, session_b, clk) ==
    {feature \in FeatureNames :
        extract_features(session_a, clk)[feature] # extract_features(session_b, clk)[feature]}

\* C9: with the profile fixed, a session that differs from the scored one in
\* exactly one baseline feature and is nearer to the baseline mean in it never
\* scores higher than the scored one.
C9_FartherNeverScoresLower ==
    (Scored /\ LastUserKnown) =>
        \A other \in Sessions :
            \A feature \in DOMAIN LastBaseline :
                (/\ Differing(other, last.current_session, last.clk) = {feature}
                 /\ Distance(extract_features(other, last.clk)[feature], LastBaseline[feature])
                      < Distance(LastFeatures[feature], LastBaseline[feature]))
                => ScoreTable[user_profiles[last.user_id], other, last.clk].items[1]
                      <= last.outcome.value.items[1]


\* The position of x in the sequence order (0 when absent).
PositionIn(order, x) ==
    IF \E i \in DOMAIN order : order[i] = x
    THEN CHOOSE i \in DOMAIN order : order[i] = x
    ELSE 0

\* The rule factors in the order the claim gives.
RuleTexts ==
    << "Panic gesture detected", "Direct access to sensitive area",
       "Unfamiliar location", "Biometric signature mismatch" >>

IsDeviationFactor(factor) == "feature" \in DOMAIN factor

IsRuleFactor(factor) == "text" \in DOMAIN factor

\* The rules the latest scored session fires, by the claim's conditions.
FiredRules ==
    {text \in {RuleTexts[i] : i \in DOMAIN RuleTexts} :
        \/ text = RuleTexts[1] /\ LastFeatures["panic_gesture_triggered"] = Deci(1, 0)
        \/ text = RuleTexts[2] /\ LastFeatures["direct_to_sensitive"] = Deci(1, 0)
        \/ text = RuleTexts[3] /\ LastFeatures["location_familiarity"] < Deci(0, 3)
        \/ text = RuleTexts[4] /\ LastFeatures["tremor_signature"] < Deci(0, 7)}

\* The weights the claim gives the fired rules, summed, in hundredths.
ClaimedBoost ==
    (IF RuleTexts[1] \in FiredRules THEN 500 ELSE 0)
    + (IF RuleTexts[2] \in FiredRules THEN 300 ELSE 0)
    + (IF RuleTexts[3] \in FiredRules THEN 200 ELSE 0)
    + (IF RuleTexts[4] \in FiredRules THEN 400 ELSE 0)

\* C10: the risk factors list the baseline deviations (one per feature with
\* z > 2) in feature-extraction order, then the fired rules in the order panic,
\* direct access, location, biometric, each once; the fired rules add their
\* weights 5, 3, 2, 4 to the total on top of the deviations.
C10_FactorsInCheckOrder ==
    (Scored /\ LastUserKnown) =>
        LET factors == last.outcome.value.items[2]
            n       == Len(factors)
            profile == user_profiles[last.user_id]
            noacc   == [risk_factors |-> << >>, total_deviation |-> 0]
            base    == DeviationLoop(1, LastFeatures, LastBaseline, noacc).total_deviation
            total   == Deviations(profile, last.current_session, last.clk).total_deviation
        IN  /\ \A i, j \in 1..n :
                  (i < j /\ IsDeviationFactor(factors[j])) => IsDeviationFactor(factors[i])
            /\ \A i, j \in 1..n :
                  (i < j /\ IsDeviationFactor(factors[i]) /\ IsDeviationFactor(factors[j])) =>
                      PositionIn(FeatureOrder, factors[i].feature)
                        < PositionIn(FeatureOrder, factors[j].feature)
            /\ \A i, j \in 1..n :
                  (i < j /\ IsRuleFactor(factors[i]) /\ IsRuleFactor(factors[j])) =>
                      PositionIn(RuleTexts, factors[i].text)
                        < PositionIn(RuleTexts, factors[j].text)
            /\ {factors[i].feature : i \in {k \in 1..n : IsDeviationFactor(factors[k])}}
                  = {feature \in DOMAIN LastBaseline :
                        ZExceeds(LastFeatures[feature], LastBaseline[feature])}
            /\ {factors[i].text : i \in {k \in 1..n : IsRuleFactor(factors[k])}} = FiredRules
            /\ total = base + ClaimedBoost
            /\ last.outcome.value.items[1] = Max2(Min2(total, 1000), 50)

\* C10 witness: a scored session with several baseline deviations and all four
\* rules fired.
C10_Witness ==
    /\ Scored /\ LastUserKnown
    /\ Cardinality({i \in DOMAIN last.outcome.value.items[2] :
                       IsDeviationFactor(last.outcome.value.items[2][i])}) >= 3
    /\ FiredRules = {RuleTexts[i] : i \in DOMAIN RuleTexts}

\* ---------------------------------------------- claims on calls run concurrently

\* The model bundle is whole: normalizer, classifier and anomaly detector are
\* all absent, or all present, fitted and from the same train_models call.
BundleWhole ==
    \/ /\ "main" \notin DOMAIN scalers
       /\ DOMAIN models = {}
    \/ /\ "main" \in DOMAIN scalers
       /\ DOMAIN models = {"random_forest", "isolation_forest"}
       /\ scalers.main.fitted
       /\ models.random_forest.fitted
       /\ models.isolation_forest.fitted
       /\ models.random_forest.call = scalers.main.call
       /\ models.isolation_forest.call = scalers.main.call

\* C7: while a classify_user and a train_models are both in progress, the
\* bundle the classification reads is whole at every interleaving point.
C7_BundleNeverPartial ==
    (reader.pc # "idle" /\ trainer.pc # "idle") => BundleWhole

\* A stored profile of user_id is complete: it carries that id and, for every
\* feature it has, all six statistics; it has every feature or (built from
\* no session) none.
ProfileComplete(profile, user_id) ==
    /\ profile.user_id = user_id
    /\ DOMAIN profile.baseline_features \in {{}, FeatureNames}
    /\ \A key \in DOMAIN profile.baseline_features :
          DOMAIN profile.baseline_features[key] = StatNames

\* The stored profile of user_id, as a set: empty when there is none.
StoredOf(profiles, user_id) ==
    IF user_id \in DOMAIN profiles THEN {profiles[user_id]} ELSE {}

\* A step changes the stored profile of user_id only by putting there the
\* whole result of the build in progress for user_id.
ReplacedWhole(user_id) ==
    StoredOf(user_profiles', user_id) # StoredOf(user_profiles, user_id)
        => /\ builder.pc = "store"
           /\ builder.user_id = user_id
           /\ StoredOf(user_profiles', user_id)
                  = {BuildResult(user_id, builder.historical_data, builder.clk)}

\* C8: at every interleaving point of a build_user_profile with scores and
\* classifications, each stored profile is complete, and a step changes the
\* stored profile of an identity only by replacing it with the whole result
\* of the build for that identity.
C8_ProfileReplacedWhole ==
    /\ [](\A user_id \in DOMAIN user_profiles :
             ProfileComplete(user_profiles[user_id], user_id))
    /\ [][\A user_id \in Ids : ReplacedWhole(user_id)]_vars

\* A classification of X is about to read X's profile while a rebuild of X
\* holds a finished, different profile not yet stored, another identity has
\* a profile, and a score of X was computed during the rebuild.
C8_Witness ==
    /\ builder.pc = "store"
    /\ reader.pc = "assess"
    /\ reader.user_id = builder.user_id
    /\ builder.user_id \in DOMAIN user_profiles
    /\ user_profiles[builder.user_id] # builder.profile
    /\ \E other \in DOMAIN user_profiles : other # builder.user_id
    /\ Scored
    /\ last.user_id = builder.user_id

\* C11: whenever no train_models is in progress, after any sequence of
\* train_models calls that returned or raised, the stored normalizer,
\* classifier and anomaly detector are all fitted by the same call, or none
\* is present.
C11_FailedTrainingKeepsBundleWhole ==
    trainer.pc = "idle" => BundleWhole

====
